---- MODULE Spec2Model ----
(***************************************************************************)
(* strmatch: a procedural macro that turns a small pattern language over   *)
(* byte strings into a Rust slice pattern.                                 *)
(*                                                                         *)
(* The model follows one invocation of `strmatch!`: the token stream is    *)
(* parsed by MacroInput::parse (a loop of Capture::parse, then the         *)
(* optional bracketed EndCapture), the parsed pattern is lowered by the    *)
(* ToTokens impls, and the emitted slice pattern is then matched by the    *)
(* host `match` against a byte slice.                                      *)
(*                                                                         *)
(* Characters of a literal suffix are one-character strings, literal       *)
(* values are sequences of numbers (bytes for byte literals, Unicode code  *)
(* points for text and character literals).                                *)
(***************************************************************************)
EXTENDS Integers, Sequences, FiniteSets, TLC

VARIABLES tokens, pos, literals, end, pc, out, diag, subject, matched, bound

vars == <<tokens, pos, literals, end, pc, out, diag, subject, matched, bound>>

(***************************************************************************)
(* Bounds of the model.                                                    *)
(***************************************************************************)
MaxTokens == 3
MaxSuffixLen == 2
MaxSubjectLen == 5

(***************************************************************************)
(* Generic helpers.                                                        *)
(***************************************************************************)
SeqsUpTo(S, n) == UNION {[1..k -> S] : k \in 0..n}

(***************************************************************************)
(* str::parse::<usize>() as used by process_suffix.  The host's usize is   *)
(* 64 bits wide; the accumulated value is checked against usize::MAX, so   *)
(* overflow is decided on the decimal digits (the value itself does not    *)
(* fit the model checker's integers).                                      *)
(***************************************************************************)
AsciiDigits == {"0", "1", "2", "3", "4", "5", "6", "7", "8", "9"}

DigitVal(c) ==
  CASE c = "0" -> 0 [] c = "1" -> 1 [] c = "2" -> 2 [] c = "3" -> 3
    [] c = "4" -> 4 [] c = "5" -> 5 [] c = "6" -> 6 [] c = "7" -> 7
    [] c = "8" -> 8 [] c = "9" -> 9

UsizeMaxDigits ==
  <<"1", "8", "4", "4", "6", "7", "4", "4", "0", "7",
    "3", "7", "0", "9", "5", "5", "1", "6", "1", "5">>

RECURSIVE StripZeros(_)
StripZeros(ds) ==
  IF ds # <<>> /\ Head(ds) = "0" THEN StripZeros(Tail(ds)) ELSE ds

RECURSIVE DigitsGreater(_, _)
DigitsGreater(a, b) ==
  IF a = <<>> THEN FALSE
  ELSE IF DigitVal(Head(a)) # DigitVal(Head(b))
       THEN DigitVal(Head(a)) > DigitVal(Head(b))
       ELSE DigitsGreater(Tail(a), Tail(b))

UsizeOverflows(ds) ==
  LET c == StripZeros(ds) IN
    \/ Len(c) > Len(UsizeMaxDigits)
    \/ Len(c) = Len(UsizeMaxDigits) /\ DigitsGreater(c, UsizeMaxDigits)

RECURSIVE DecFold(_, _)
DecFold(acc, ds) ==
  IF ds = <<>> THEN acc ELSE DecFold(acc * 10 + DigitVal(Head(ds)), Tail(ds))

ParseUsize(src) ==
  LET digits == IF src # <<>> /\ Head(src) = "+" /\ Len(src) > 1
                THEN Tail(src) ELSE src
  IN IF src = <<>> THEN [ok |-> FALSE, val |-> 0]
     ELSE IF \E i \in 1..Len(digits) : digits[i] \notin AsciiDigits
          THEN [ok |-> FALSE, val |-> 0]
     ELSE IF UsizeOverflows(digits) THEN [ok |-> FALSE, val |-> 0]
     ELSE [ok |-> TRUE, val |-> DecFold(0, digits)]

(***************************************************************************)
(* process_suffix: the repetition count of a literal's suffix.             *)
(***************************************************************************)
ErrNotX == "suffix did not start with x"
ErrNotInt == "error parsing {rest} into an integer"

\* process_suffix without its first test: the empty suffix is handled like
\* any other suffix that does not start with x.
process_suffix_no_empty(suffix) ==
  IF suffix # <<>> /\ Head(suffix) = "x"
  THEN LET rest == Tail(suffix)
           r == ParseUsize(rest)
       IN IF r.ok THEN [ok |-> TRUE, val |-> r.val, err |-> "", rest |-> rest]
          ELSE [ok |-> FALSE, val |-> 0, err |-> ErrNotInt, rest |-> rest]
  ELSE [ok |-> FALSE, val |-> 0, err |-> ErrNotX, rest |-> <<>>]

process_suffix(suffix) ==
  IF suffix = <<>> THEN [ok |-> TRUE, val |-> 1, err |-> "", rest |-> <<>>]
  ELSE IF Head(suffix) = "x"
       THEN LET rest == Tail(suffix)
                r == ParseUsize(rest)
            IN IF r.ok THEN [ok |-> TRUE, val |-> r.val, err |-> "", rest |-> rest]
               ELSE [ok |-> FALSE, val |-> 0, err |-> ErrNotInt, rest |-> rest]
       ELSE [ok |-> FALSE, val |-> 0, err |-> ErrNotX, rest |-> <<>>]

(***************************************************************************)
(* Tokens of the macro input, as classified by the token-stream parser.    *)
(* A literal carries its value and its suffix; a bracket group carries the *)
(* tokens between the brackets; "Other" is any token that is none of the   *)
(* classes the grammar knows (an integer literal, punctuation, ...).       *)
(***************************************************************************)
LitClasses == {"LitByte", "LitByteStr", "LitChar", "LitStr"}

Tok(class, value, suffix, name, inner) ==
  [class |-> class, value |-> value, suffix |-> suffix, name |-> name,
   inner |-> inner]

LitTok(class, value, suffix) == Tok(class, value, suffix, "", <<>>)
IdentTok(name) == Tok("Ident", <<>>, <<>>, name, <<>>)
UnderscoreTok == Tok("Underscore", <<>>, <<>>, "", <<>>)
OtherTok == Tok("Other", <<>>, <<>>, "", <<>>)
BracketTok(inner) == Tok("Bracket", <<>>, <<>>, "", inner)

(***************************************************************************)
(* enum Capture and enum EndCapture.                                       *)
(***************************************************************************)
Capture(kind, value, reps, name) ==
  [kind |-> kind, value |-> value, reps |-> reps, name |-> name]

NoCapture == Capture("None", <<>>, 0, "")

EndCapture(kind, name) == [kind |-> kind, name |-> name]

NoEnd == EndCapture("None", "")

(***************************************************************************)
(* Diagnostics.  kind is "suffix" for abort! on a suffix error,            *)
(* "lookahead" for a Lookahead1 error (expected lists the token classes it *)
(* names), "brackets" for the failure of bracketed!, "unexpected" for the  *)
(* unexpected-token error of the parser entry point.                       *)
(***************************************************************************)
Diag(kind, msg, expected) == [kind |-> kind, msg |-> msg, expected |-> expected]

NoDiag == Diag("none", "", {})

CaptureClasses ==
  {"Ident", "Underscore", "LitByte", "LitByteStr", "LitChar", "LitStr"}

EndCaptureClasses == {"Underscore", "Ident"}

(***************************************************************************)
(* impl Parse for Capture, applied to the token under the cursor (peek is  *)
(* "Eof" at the end of the input).  res is "Ok" (one token consumed),      *)
(* "Err" (nothing consumed) or "Abort" (abort! on a suffix error).         *)
(***************************************************************************)
LiteralKind(class) ==
  CASE class = "LitByte" -> "Byte" [] class = "LitByteStr" -> "ByteStr"
    [] class = "LitChar" -> "Char" [] class = "LitStr" -> "Str"

\* The suffix error returned as an ordinary parse error instead of abort!.
ReturnErrOnSuffix(tok) ==
  LET r == process_suffix(tok.suffix) IN
    [res |-> "Err", cap |-> NoCapture, diag |-> Diag("suffix", r.err, {})]

AbortOnSuffix(tok) ==
  LET r == process_suffix(tok.suffix) IN
    [res |-> "Abort", cap |-> NoCapture, diag |-> Diag("suffix", r.err, {})]

ParseLiteral(tok) ==
  LET r == process_suffix(tok.suffix) IN
    IF r.ok
    THEN [res |-> "Ok",
          cap |-> Capture(LiteralKind(tok.class), tok.value, r.val, ""),
          diag |-> NoDiag]
    ELSE AbortOnSuffix(tok)

Capture_parse(input, at) ==
  LET class == IF at > Len(input) THEN "Eof" ELSE input[at].class IN
    IF class = "Ident"
    THEN [res |-> "Ok", cap |-> Capture("Ident", <<>>, 1, input[at].name),
          diag |-> NoDiag]
    ELSE IF class = "Underscore"
    THEN [res |-> "Ok", cap |-> Capture("Underscore", <<>>, 1, ""),
          diag |-> NoDiag]
    ELSE IF class \in LitClasses
    THEN ParseLiteral(input[at])
    ELSE [res |-> "Err", cap |-> NoCapture,
          diag |-> Diag("lookahead", "", CaptureClasses)]

(***************************************************************************)
(* impl Parse for EndCapture, applied to the content of the bracket group. *)
(***************************************************************************)
EndCapture_parse(inner) ==
  LET class == IF inner = <<>> THEN "Eof" ELSE inner[1].class IN
    IF class = "Underscore"
    THEN [ok |-> TRUE, end |-> EndCapture("Underscore", ""), diag |-> NoDiag]
    ELSE IF class = "Ident"
    THEN [ok |-> TRUE, end |-> EndCapture("Ident", inner[1].name),
          diag |-> NoDiag]
    ELSE [ok |-> FALSE, end |-> NoEnd,
          diag |-> Diag("lookahead", "", EndCaptureClasses)]

(***************************************************************************)
(* The parser entry point behind parse_macro_input!: after the Parse impl  *)
(* has returned Ok, tokens left unread in the bracket group or after it    *)
(* make the whole parse fail with "unexpected token".                      *)
(***************************************************************************)
\* An entry point that does not look for unread tokens.
UnreadTokensIgnored(input, at) == FALSE

UnreadTokens(input, at) ==
  \/ Len(input[at].inner) > 1
  \/ at < Len(input)

(***************************************************************************)
(* The part of MacroInput::parse after the capture loop, for input that is *)
(* not exhausted: bracketed!, EndCapture::parse, and the entry point's     *)
(* check for unread tokens.                                                *)
(***************************************************************************)
ParseEnd(input, at) ==
  IF input[at].class # "Bracket"
  THEN [ok |-> FALSE, end |-> NoEnd,
        diag |-> Diag("brackets", "expected square brackets", {})]
  ELSE LET e == EndCapture_parse(input[at].inner) IN
         IF ~e.ok THEN e
         ELSE IF UnreadTokens(input, at)
         THEN [ok |-> FALSE, end |-> NoEnd,
               diag |-> Diag("unexpected", "unexpected token", {})]
         ELSE e

(***************************************************************************)
(* Lowering.  The emitted slice pattern is a sequence of element patterns  *)
(* (the separating commas are left out): a u8 literal, a binding, `_`,     *)
(* and for the tail `name @ ..` or `..`.                                   *)
(***************************************************************************)
Pat(kind, byte, name) == [kind |-> kind, byte |-> byte, name |-> name]

U8Pat(b) == Pat("U8", b, "")

\* string.as_bytes(): the UTF-8 encoding of the text literal's characters.
Utf8(cp) ==
  IF cp < 128 THEN <<cp>>
  ELSE IF cp < 2048 THEN <<192 + (cp \div 64), 128 + (cp % 64)>>
  ELSE IF cp < 65536
  THEN <<224 + (cp \div 4096), 128 + ((cp \div 64) % 64), 128 + (cp % 64)>>
  ELSE <<240 + (cp \div 262144), 128 + ((cp \div 4096) % 64),
         128 + ((cp \div 64) % 64), 128 + (cp % 64)>>

RECURSIVE as_bytes(_)
as_bytes(chars) ==
  IF chars = <<>> THEN <<>> ELSE Utf8(Head(chars)) \o as_bytes(Tail(chars))

\* The code point used as it is, without the cast.
CharNotCast(cp) == cp

\* lit.value() as u8: the code point truncated to eight bits.
CharAsU8(cp) == cp % 256

\* append_terminated(bytes, `,`): one u8 literal per byte, in order.
AppendTerminated(bytes) == [i \in 1..Len(bytes) |-> U8Pat(bytes[i])]

\* for _ in 0..=reps { body }
RECURSIVE RepeatInclusive(_, _)
RepeatInclusive(reps, body) ==
  IF reps = 0 THEN body ELSE body \o RepeatInclusive(reps - 1, body)

\* for _ in 0..reps { body }
RECURSIVE Repeat(_, _)
Repeat(reps, body) == IF reps = 0 THEN <<>> ELSE body \o Repeat(reps - 1, body)

\* The two loops of a string literal exchanged: each byte repeated in turn.
RECURSIVE EachByteRepeated(_, _)
EachByteRepeated(reps, bytes) ==
  IF bytes = <<>> THEN <<>>
  ELSE Repeat(reps, <<U8Pat(Head(bytes))>>) \o EachByteRepeated(reps, Tail(bytes))

Capture_to_tokens_bytewise(cap) ==
  CASE cap.kind = "ByteStr" -> EachByteRepeated(cap.reps, cap.value)
    [] cap.kind = "Byte" -> Repeat(cap.reps, <<U8Pat(cap.value[1])>>)
    [] cap.kind = "Str" -> EachByteRepeated(cap.reps, as_bytes(cap.value))
    [] cap.kind = "Char" ->
         Repeat(cap.reps, <<U8Pat(CharAsU8(cap.value[1]))>>)
    [] cap.kind = "Ident" -> <<Pat("Bind", 0, cap.name)>>
    [] cap.kind = "Underscore" -> <<Pat("Wild", 0, "")>>

Capture_to_tokens(cap) ==
  CASE cap.kind = "ByteStr" -> Repeat(cap.reps, AppendTerminated(cap.value))
    [] cap.kind = "Byte" -> Repeat(cap.reps, <<U8Pat(cap.value[1])>>)
    [] cap.kind = "Str" ->
         Repeat(cap.reps, AppendTerminated(as_bytes(cap.value)))
    [] cap.kind = "Char" ->
         Repeat(cap.reps, <<U8Pat(CharAsU8(cap.value[1]))>>)
    [] cap.kind = "Ident" -> <<Pat("Bind", 0, cap.name)>>
    [] cap.kind = "Underscore" -> <<Pat("Wild", 0, "")>>

\* Both tails emitted as `..`: the name of a named tail is lost.
EndCapture_to_tokens_unnamed(e) ==
  CASE e.kind = "Ident" -> <<Pat("Rest", 0, "")>>
    [] e.kind = "Underscore" -> <<Pat("Rest", 0, "")>>

EndCapture_to_tokens(e) ==
  CASE e.kind = "Ident" -> <<Pat("BindRest", 0, e.name)>>
    [] e.kind = "Underscore" -> <<Pat("Rest", 0, "")>>

\* quote!([..]) for an empty token stream.
EmptyExpansionRest == <<Pat("Rest", 0, "")>>

\* quote!([]) for an empty token stream.
EmptyExpansion == <<>>

\* quote!([#(#literals)* #end]) and quote!([#(#literals)*]).
RECURSIVE QuoteLiterals(_)
QuoteLiterals(lits) ==
  IF lits = <<>> THEN <<>>
  ELSE Capture_to_tokens(Head(lits)) \o QuoteLiterals(Tail(lits))

QuoteSlice(lits, e) ==
  IF e.kind # "None" THEN QuoteLiterals(lits) \o EndCapture_to_tokens(e)
  ELSE QuoteLiterals(lits)

(***************************************************************************)
(* The host's slice-pattern matching of the emitted pattern against a byte *)
(* slice: element patterns match one element each, a rest pattern matches  *)
(* any number of elements, and without a rest pattern the lengths agree.   *)
(***************************************************************************)
RestKinds == {"Rest", "BindRest"}

ElemMatches(p, b) ==
  CASE p.kind = "U8" -> p.byte = b
    [] p.kind = "Bind" -> TRUE
    [] p.kind = "Wild" -> TRUE

RECURSIVE SliceMatches(_, _)
SliceMatches(pat, s) ==
  IF pat = <<>> THEN s = <<>>
  ELSE IF Head(pat).kind \in RestKinds
  THEN \E k \in 0..Len(s) : SliceMatches(Tail(pat), SubSeq(s, k + 1, Len(s)))
  ELSE /\ s # <<>>
       /\ ElemMatches(Head(pat), Head(s))
       /\ SliceMatches(Tail(pat), Tail(s))

\* The bindings of a successful match; the rest pattern is the last element.
SliceBindings(pat, s) ==
  {[name |-> pat[i].name, rest |-> FALSE, val |-> <<s[i]>>] :
     i \in {j \in 1..Len(pat) : pat[j].kind = "Bind"}}
  \cup
  {[name |-> pat[i].name, rest |-> TRUE, val |-> SubSeq(s, i, Len(s))] :
     i \in {j \in 1..Len(pat) : pat[j].kind = "BindRest"}}

\* A pattern that binds one identifier twice is rejected by the compiler.
BindingPositions(pat) ==
  {i \in 1..Len(pat) : pat[i].kind \in {"Bind", "BindRest"}}

HostAccepts(pat) ==
  \A i, j \in BindingPositions(pat) : pat[i].name = pat[j].name => i = j

(***************************************************************************)
(* Inputs.  A macro invocation is either one literal, with any of the      *)
(* literal bodies and any suffix (an identifier, so it does not begin with *)
(* a digit), or a sequence of up to MaxTokens tokens of a small pool that  *)
(* holds every token class.                                                *)
(***************************************************************************)
SuffixChars == {"x", "0", "2", "y"}

ShortSuffixes ==
  {s \in SeqsUpTo(SuffixChars, MaxSuffixLen) : s = <<>> \/ s[1] \notin AsciiDigits}

\* x18446744073709551616 (usize::MAX + 1), x99999999999999999999 and
\* x000000000000000000007 (more digits than usize::MAX, value 7).
LongSuffixes ==
  LET n == Len(UsizeMaxDigits) IN
    { <<"x">> \o [i \in 1..n |-> IF i = n THEN "6" ELSE UsizeMaxDigits[i]],
      <<"x">> \o [i \in 1..n |-> "9"],
      <<"x">> \o [i \in 1..(n + 1) |-> IF i = n + 1 THEN "7" ELSE "0"] }

Suffixes == ShortSuffixes \cup LongSuffixes

\* a, DEL, U+0080, e-acute, L-stroke (U+0141), euro sign, an emoji
CharPool == {97, 127, 128, 233, 321, 8364, 128512}

LiteralBodies ==
  {<<"LitByteStr", <<97, 98>> >>, <<"LitByte", <<97>> >>,
   <<"LitStr", <<97, 98>> >>, <<"LitStr", <<233, 97>> >>}
  \cup {<<"LitChar", <<c>> >> : c \in CharPool}

SingleLiterals ==
  {<<LitTok(b[1], b[2], s)>> : b \in LiteralBodies, s \in Suffixes}

TokenPool ==
  { LitTok("LitStr", <<97, 98>>, <<"x", "2">>),
    LitTok("LitByteStr", <<98, 97>>, <<>>),
    LitTok("LitChar", <<98>>, <<>>),
    LitTok("LitByte", <<97>>, <<"y">>),
    IdentTok("n"),
    UnderscoreTok,
    BracketTok(<<IdentTok("rest")>>),
    BracketTok(<<UnderscoreTok>>),
    BracketTok(<<>>),
    BracketTok(<<IdentTok("rest"), UnderscoreTok>>),
    OtherTok }

Inputs == SingleLiterals \cup SeqsUpTo(TokenPool, MaxTokens)

Subjects == SeqsUpTo({97, 98}, MaxSubjectLen)

(***************************************************************************)
(* The state machine of one invocation and of the match that uses it.      *)
(***************************************************************************)
Init ==
  /\ tokens \in Inputs
  /\ pos = 1
  /\ literals = <<>>
  /\ end = NoEnd
  /\ pc = "entry"
  /\ out = <<>>
  /\ diag = NoDiag
  /\ subject = <<>>
  /\ matched = FALSE
  /\ bound = {}

\* strmatch, tokens.is_empty(): return quote!([]) without parsing.
strmatch_empty ==
  /\ pc = "entry"
  /\ tokens = <<>>
  /\ out' = EmptyExpansion
  /\ pc' = "done"
  /\ UNCHANGED <<tokens, pos, literals, end, diag, subject, matched, bound>>

\* strmatch, otherwise: parse_macro_input!(tokens as MacroInput).
strmatch_parse ==
  /\ pc = "entry"
  /\ tokens # <<>>
  /\ pc' = "captures"
  /\ UNCHANGED <<tokens, pos, literals, end, out, diag, subject, matched, bound>>

\* One iteration of `while let Ok(lit) = input.parse::<Capture>()`.
ParseCapture ==
  /\ pc = "captures"
  /\ LET r == Capture_parse(tokens, pos) IN
       /\ r.res = "Ok"
       /\ literals' = Append(literals, r.cap)
       /\ pos' = pos + 1
  /\ UNCHANGED <<tokens, end, pc, out, diag, subject, matched, bound>>

\* abort! inside Capture::parse: the invocation ends with the diagnostic.
ParseCaptureAbort ==
  /\ pc = "captures"
  /\ LET r == Capture_parse(tokens, pos) IN
       /\ r.res = "Abort"
       /\ diag' = r.diag
       /\ pc' = "aborted"
  /\ UNCHANGED <<tokens, pos, literals, end, out, subject, matched, bound>>

\* The loop ends on Err and the input is exhausted: Ok(end: None).
ParseNoEnd ==
  /\ pc = "captures"
  /\ Capture_parse(tokens, pos).res = "Err"
  /\ pos > Len(tokens)
  /\ end' = NoEnd
  /\ pc' = "quote"
  /\ UNCHANGED <<tokens, pos, literals, out, diag, subject, matched, bound>>

\* The loop ends on Err with input left: the bracketed EndCapture.
ParseEndCapture ==
  /\ pc = "captures"
  /\ Capture_parse(tokens, pos).res = "Err"
  /\ pos <= Len(tokens)
  /\ LET r == ParseEnd(tokens, pos) IN
       IF r.ok
       THEN /\ end' = r.end
            /\ pos' = Len(tokens) + 1
            /\ pc' = "quote"
            /\ diag' = diag
       ELSE /\ diag' = r.diag
            /\ pc' = "error"
            /\ UNCHANGED <<end, pos>>
  /\ UNCHANGED <<tokens, literals, out, subject, matched, bound>>

\* strmatch, after parsing: quote the slice pattern.
Quote ==
  /\ pc = "quote"
  /\ out' = QuoteSlice(literals, end)
  /\ pc' = "done"
  /\ UNCHANGED <<tokens, pos, literals, end, diag, subject, matched, bound>>

\* The expansion is used as a match arm against a byte slice.
MatchSubject ==
  /\ pc = "done"
  /\ HostAccepts(out)
  /\ \E s \in Subjects :
       /\ subject' = s
       /\ matched' = SliceMatches(out, s)
       /\ bound' = IF SliceMatches(out, s) THEN SliceBindings(out, s) ELSE {}
  /\ pc' = "matched"
  /\ UNCHANGED <<tokens, pos, literals, end, out, diag>>

\* The expansion binds an identifier twice: the host rejects the pattern.
RejectPattern ==
  /\ pc = "done"
  /\ ~HostAccepts(out)
  /\ pc' = "rejected"
  /\ UNCHANGED <<tokens, pos, literals, end, out, diag, subject, matched, bound>>

Next ==
  \/ strmatch_empty
  \/ strmatch_parse
  \/ ParseCapture
  \/ ParseCaptureAbort
  \/ ParseNoEnd
  \/ ParseEndCapture
  \/ Quote
  \/ MatchSubject
  \/ RejectPattern

Spec == Init /\ [][Next]_vars

(***************************************************************************)
(* Vocabulary of the properties: what the pattern language promises,       *)
(* stated on the source tokens and on the parsed pattern.                   *)
(***************************************************************************)
RECURSIVE Flatten(_)
Flatten(ss) == IF ss = <<>> THEN <<>> ELSE Head(ss) \o Flatten(Tail(ss))

RECURSIVE SumSeq(_)
SumSeq(ns) == IF ns = <<>> THEN 0 ELSE Head(ns) + SumSeq(Tail(ns))

Emitted == pc \in {"done", "matched", "rejected"}

ParseReturned == pc \notin {"entry", "captures"}

LiteralKinds == {"ByteStr", "Byte", "Str", "Char"}

\* The byte run a literal capture stands for.
ByteRun(cap) ==
  CASE cap.kind = "ByteStr" -> cap.value
    [] cap.kind = "Byte" -> cap.value
    [] cap.kind = "Str" -> as_bytes(cap.value)
    [] cap.kind = "Char" -> <<cap.value[1] % 256>>

\* Number of elements a capture stands for: k * r, or 1.
Width(cap) ==
  IF cap.kind \in LiteralKinds THEN Len(ByteRun(cap)) * cap.reps ELSE 1

\* r consecutive copies of the byte run, written by position.
ExpectedOf(cap) ==
  CASE cap.kind \in LiteralKinds ->
         LET run == ByteRun(cap) IN
           [j \in 1..Width(cap) |-> U8Pat(run[((j - 1) % Len(run)) + 1])]
    [] cap.kind = "Ident" -> <<Pat("Bind", 0, cap.name)>>
    [] cap.kind = "Underscore" -> <<Pat("Wild", 0, "")>>

ExpectedEnd(e) ==
  CASE e.kind = "Ident" -> <<Pat("BindRest", 0, e.name)>>
    [] e.kind = "Underscore" -> <<Pat("Rest", 0, "")>>
    [] e.kind = "None" -> <<>>

\* The i-th capture was read from the i-th token.
CaptureOfToken(i) ==
  /\ tokens[i].class \in CaptureClasses
  /\ tokens[i].class \in LitClasses =>
       /\ literals[i].kind = LiteralKind(tokens[i].class)
       /\ literals[i].value = tokens[i].value
  /\ tokens[i].class = "Ident" =>
       literals[i].kind = "Ident" /\ literals[i].name = tokens[i].name
  /\ tokens[i].class = "Underscore" => literals[i].kind = "Underscore"

Offset(i) == SumSeq([j \in 1..(i - 1) |-> Width(literals[j])])

FixedLength == SumSeq([j \in 1..Len(literals) |-> Width(literals[j])])

\* Every fixed-value position of s holds the byte the pattern gives it.
FixedPositionsAgree(s) ==
  \A i \in 1..Len(literals) :
    literals[i].kind \in LiteralKinds =>
      \A q \in 1..Width(literals[i]) :
        /\ Offset(i) + q <= Len(s)
        /\ s[Offset(i) + q]
             = ByteRun(literals[i])[((q - 1) % Len(ByteRun(literals[i]))) + 1]

\* The pattern with its i-th text literal written as a byte-string literal.
AsByteString(i) ==
  [literals EXCEPT ![i] =
     Capture("ByteStr", as_bytes(literals[i].value), literals[i].reps, "")]

\* C2: without an EndCapture the number of element matchers is the sum of
\* (byte count, or 1) * repetitions over the captures, and the pattern
\* matches a sequence iff it has exactly that length and agrees on every
\* fixed-value position; a text literal matches what the byte-string
\* literal of the same bytes matches.
C2_ExactLengthMatch ==
  (Emitted /\ end.kind = "None") =>
    /\ Len(out) = FixedLength
    /\ pc = "matched" =>
         /\ matched <=> (Len(subject) = FixedLength /\ FixedPositionsAgree(subject))
         /\ \A i \in 1..Len(literals) :
              literals[i].kind = "Str" =>
                (SliceMatches(QuoteSlice(AsByteString(i), end), subject)
                   <=> matched)

\* A repeated text literal among several captures matched a sequence.
C2_Witness ==
  /\ pc = "matched"
  /\ end.kind = "None"
  /\ matched
  /\ Len(literals) = 2
  /\ literals[2].kind = "Str" /\ literals[2].reps = 2
  /\ Len(subject) = FixedLength

\* The prefix of s of the accumulated fixed length matches the captures.
PrefixMatches(s) == Len(s) >= FixedLength /\ FixedPositionsAgree(s)

Remainder(s) == SubSeq(s, FixedLength + 1, Len(s))

\* C3: a pattern ending in [name] matches exactly the sequences whose prefix
\* of the accumulated fixed length matches the captures and binds name to
\* the remaining elements, which may be none; with [_] the same sequences
\* match and the remainder is bound to nothing.
C3_TailCapture ==
  (pc = "matched" /\ end.kind # "None") =>
    /\ matched <=> PrefixMatches(subject)
    /\ matched =>
         /\ end.kind = "Ident" =>
              {b \in bound : b.rest}
                = {[name |-> end.name, rest |-> TRUE, val |-> Remainder(subject)]}
         /\ end.kind = "Underscore" => {b \in bound : b.rest} = {}
         /\ {b.name : b \in {c \in bound : ~c.rest}}
              = {literals[i].name :
                   i \in {j \in 1..Len(literals) : literals[j].kind = "Ident"}}

\* A literal prefix and a named tail matched a sequence with nothing left
\* over, so the name is bound to the empty slice.
C3_Witness ==
  /\ pc = "matched"
  /\ matched
  /\ end.kind = "Ident"
  /\ \E i \in 1..Len(literals) : literals[i].kind \in LiteralKinds
  /\ Len(subject) = FixedLength
  /\ \E b \in bound : b.rest /\ b.val = <<>>

\* C6: an empty token sequence never errors and yields the empty pattern,
\* whose emitted pattern has no element matcher and no tail matcher: it
\* matches the empty sequence and no other.
C6_EmptyInput ==
  tokens = <<>> =>
    /\ pc \in {"entry", "done", "matched"}
    /\ diag = NoDiag
    /\ literals = <<>> /\ end = NoEnd
    /\ out = <<>>
    /\ pc = "matched" => (matched <=> subject = <<>>)

\* The empty pattern was tried against a non-empty sequence.
C6_Witness ==
  /\ tokens = <<>>
  /\ pc = "matched"
  /\ subject # <<>>
  /\ ~matched

\* Index of the first token that cannot begin a capture (Len + 1 if none).
FirstStop ==
  CHOOSE k \in 1..(Len(tokens) + 1) :
    /\ \A j \in 1..(k - 1) : tokens[j].class \in CaptureClasses
    /\ k <= Len(tokens) => tokens[k].class \notin CaptureClasses

\* One bracket group holding exactly one identifier or one `_`.
ValidTailGroup(t) ==
  /\ t.class = "Bracket"
  /\ Len(t.inner) = 1
  /\ t.inner[1].class \in {"Ident", "Underscore"}

\* C7: when the capture loop stops with input remaining, the parse succeeds
\* iff the remainder is exactly one bracket group holding one identifier or
\* one `_`; so an EndCapture is always the final term, and the emitted
\* pattern has at most one tail matcher, in the last place.
C7_EndCaptureIsLast ==
  /\ (ParseReturned /\ pc # "aborted" /\ tokens # <<>>) =>
       /\ FirstStop <= Len(tokens) =>
            /\ pc # "error" <=>
                 (FirstStop = Len(tokens) /\ ValidTailGroup(tokens[FirstStop]))
            /\ pc # "error" =>
                 /\ end.kind = (IF tokens[FirstStop].inner[1].class = "Ident"
                                THEN "Ident" ELSE "Underscore")
                 /\ Len(literals) = Len(tokens) - 1
       /\ FirstStop > Len(tokens) => (pc # "error" /\ end = NoEnd)
       /\ pc = "error" => (out = <<>> /\ end = NoEnd)
  /\ Emitted =>
       \A i \in 1..Len(out) : out[i].kind \in RestKinds => i = Len(out)

\* A capture followed by a bracket group with a further token behind its
\* identifier, or by a token after the group, was refused.
C7_Witness ==
  /\ pc = "error"
  /\ diag.kind = "unexpected"
  /\ Len(literals) >= 1
  /\ tokens[pos].class = "Bracket"

\* The capture loop reaches token i: every token before it is a capture
\* whose suffix the suffix rule accepts.
LoopReaches(i) ==
  \A j \in 1..(i - 1) :
    /\ tokens[j].class \in CaptureClasses
    /\ tokens[j].class \in LitClasses => process_suffix(tokens[j].suffix).ok

\* C9: when the suffix rule reports an error for a literal the capture loop
\* has reached, at whatever position, the invocation is aborted with that
\* suffix error: the loop does not go on to the tail, no count is defaulted,
\* nothing is emitted.
C9_SuffixErrorAborts ==
  \A i \in 1..Len(tokens) :
    ( /\ LoopReaches(i)
      /\ tokens[i].class \in LitClasses
      /\ ~process_suffix(tokens[i].suffix).ok
      /\ pc # "entry"
      /\ ~(pc = "captures" /\ pos <= i) ) =>
    /\ pc = "aborted"
    /\ pos = i
    /\ Len(literals) = i - 1
    /\ diag = Diag("suffix", process_suffix(tokens[i].suffix).err, {})
    /\ diag.msg \in {ErrNotX, ErrNotInt}
    /\ out = <<>>
    /\ end = NoEnd

\* The literal with the bad suffix is the last of three tokens.
C9_Witness ==
  /\ pc = "aborted"
  /\ Len(tokens) = 3
  /\ pos = 3
  /\ Len(literals) = 2

Utf8Len(cp) ==
  IF cp < 128 THEN 1 ELSE IF cp < 2048 THEN 2 ELSE IF cp < 65536 THEN 3 ELSE 4

\* C10: a character literal with code point c and count r lowers to r
\* fixed-value matchers of value c mod 256, a text literal holding the same
\* character to r copies of its UTF-8 bytes; for r >= 1 the two agree iff
\* c < 128.
C10_CharTruncation ==
  Emitted =>
    \A i \in 1..Len(literals) :
      literals[i].kind = "Char" =>
        LET cp == literals[i].value[1]
            r == literals[i].reps
            t == Capture_to_tokens(Capture("Str", <<cp>>, r, ""))
        IN /\ SubSeq(out, Offset(i) + 1, Offset(i) + r)
                = [j \in 1..r |-> U8Pat(cp % 256)]
           /\ Offset(i) + r <= Len(out)
           /\ Len(t) = r * Utf8Len(cp)
           /\ cp < 128 => t = [j \in 1..r |-> U8Pat(cp)]
           /\ r >= 1 =>
                (SubSeq(out, Offset(i) + 1, Offset(i) + r) = t <=> cp < 128)

\* U+0141 repeated twice was emitted as two matchers of 0x41.
C10_Witness ==
  /\ Emitted
  /\ Len(literals) = 1
  /\ literals[1].kind = "Char"
  /\ literals[1].value = <<321>>
  /\ literals[1].reps = 2
  /\ out = <<U8Pat(65), U8Pat(65)>>

\* A suffix of the form x<N>, N a positive integer in decimal digits.
IsXPositive(sfx) ==
  /\ Len(sfx) >= 2
  /\ sfx[1] = "x"
  /\ \A i \in 2..Len(sfx) : sfx[i] \in AsciiDigits
  /\ \E i \in 2..Len(sfx) : sfx[i] # "0"

\* The value of a run of decimal digits, from its last digit backwards.
RECURSIVE DecimalValue(_)
DecimalValue(ds) ==
  IF ds = <<>> THEN 0
  ELSE DecimalValue(SubSeq(ds, 1, Len(ds) - 1)) * 10 + DigitVal(ds[Len(ds)])

\* Capture::parse has been applied to literal token i.
SuffixProcessed(i) ==
  /\ i <= Len(tokens)
  /\ tokens[i].class \in LitClasses
  /\ \/ i <= Len(literals)
     \/ pc = "aborted" /\ pos = i

\* Token i failed with a suffix error.
SuffixErrorAt(i) == pc = "aborted" /\ pos = i /\ diag.kind = "suffix"

\* C4: for every literal kind, a non-empty suffix that is not x<positive
\* integer> fails with a suffix error (x0 included), and no parsed capture
\* has a repetition count below 1.
C4_OnlyPositiveCounts ==
  \A i \in 1..Len(tokens) :
    SuffixProcessed(i) =>
      /\ (tokens[i].suffix # <<>> /\ ~IsXPositive(tokens[i].suffix)) =>
           SuffixErrorAt(i)
      /\ i <= Len(literals) => literals[i].reps >= 1

\* C5 as claimed: an empty suffix gives 1 and every suffix x<N>, N a
\* positive integer, gives exactly N, for all four literal kinds.
C5_CountIsN ==
  \A i \in 1..Len(tokens) :
    SuffixProcessed(i) =>
      /\ tokens[i].suffix = <<>> =>
           (i <= Len(literals) /\ literals[i].reps = 1)
      /\ IsXPositive(tokens[i].suffix) =>
           /\ i <= Len(literals)
           /\ literals[i].reps = DecimalValue(Tail(tokens[i].suffix))

\* C5, amended: an empty suffix gives 1; a suffix x<N>, N a positive integer,
\* gives exactly N when N does not exceed usize::MAX (only the first x is
\* stripped, leading zeros do not change the value) and is a suffix error
\* when it does; the same for all four literal kinds.
C5_CountIsNWithinUsize ==
  \A i \in 1..Len(tokens) :
    SuffixProcessed(i) =>
      /\ tokens[i].suffix = <<>> =>
           (i <= Len(literals) /\ literals[i].reps = 1)
      /\ IsXPositive(tokens[i].suffix) =>
           IF UsizeOverflows(Tail(tokens[i].suffix))
           THEN SuffixErrorAt(i) /\ diag.msg = ErrNotInt
           ELSE /\ i <= Len(literals)
                /\ literals[i].reps = DecimalValue(Tail(tokens[i].suffix))
                /\ literals[i].kind = LiteralKind(tokens[i].class)

\* A text literal whose suffix is x, zeros and a final 7, longer than the
\* digits of usize::MAX, was parsed with count 7.
C5_Witness ==
  /\ Len(literals) = 1
  /\ literals[1].kind = "Str"
  /\ Len(tokens[1].suffix) > Len(UsizeMaxDigits) + 1
  /\ literals[1].reps = 7

\* C8: when the token where a capture is expected is of no recognized class
\* and is not a valid bracketed tail, the diagnostic is a grammar error that
\* names the literal classes.
C8_GrammarErrorNamesClasses ==
  ( /\ ParseReturned
    /\ pos <= Len(tokens)
    /\ tokens[pos].class \notin CaptureClasses
    /\ ~ValidTailGroup(tokens[pos]) ) =>
  /\ pc = "error"
  /\ diag.kind = "lookahead"
  /\ LitClasses \subseteq diag.expected

====
